---- MODULE Spec2Model ----
(***************************************************************************)
(* Model of the docomatic document / section / link services.              *)
(*                                                                         *)
(* The store is the relational backend: three tables keyed by string id.   *)
(* Every public service operation is one action (validate, mutate,         *)
(* commit); the concurrent specification splits update_parent at the point *)
(* where the code holds no lock (between the cycle check and the write).   *)
(* The tables are what the service's session reads: the committed rows and *)
(* the rows it has flushed in its open transaction, which the next commit  *)
(* persists and the next rollback drops.                                   *)
(***************************************************************************)
EXTENDS Integers, Sequences, FiniteSets, TLC

\* ---------------------------------------------------------------- bounds
\* Largest order_index the model stores (explicit arguments are drawn from
\* 0..MaxOrder, and an auto-incremented index above it disables the call).
MaxOrder == 2

\* ------------------------------------------------------------ input sets
DocIds == {"d1", "d2"}
SecIds == {"s1", "s2", "s3"}
LinkIds == {"l1", "l2"}
LinkKeys == {<<"todo-rama", "todo-rama://task/1">>}
NULL == "NULL"
\* An order_index argument that is None (no stored order_index is negative).
NoIndex == 0 - 1
Orders == 0..MaxOrder
Sessions == {"t1", "t2"}
\* The link types and targets of the calls on links of every type: a target
\* passes validate_link_target_format of its own type only.
LinkTypes == {"todo-rama", "bucket-o-facts"}
LinkTargets == {"todo-rama://task/1", "bucket-o-facts://fact/1"}
WellFormedKeys == {<<"todo-rama", "todo-rama://task/1">>,
                   <<"bucket-o-facts", "bucket-o-facts://fact/1">>}
MoreLinkIds == LinkIds \cup {"l3"}

VARIABLES
    documents,  \* set of ids of the rows of table documents
    sections,   \* table sections: id -> [document_id, parent_section_id, order_index]
    links,      \* table links: id -> [section_id, document_id, link_type, link_target]
    result,     \* outcome of the operation that ran last
    pc,         \* per concurrent session: where its update_parent call stands
    pending     \* ids of the rows the service's session has flushed, not committed

vars == <<documents, sections, links, result, pc, pending>>

\* ------------------------------------------------------------- outcomes
\* The operation that ran last and what its caller got: a value ("ok" for an object,
\* "True" / "False" for a bool) or the exception raised and the field or
\* resource it names.
Ok(op) == [op |-> op, status |-> "ok", field |-> ""]
Returned(op, value) == [op |-> op, status |-> IF value THEN "True" ELSE "False", field |-> ""]
Raise(op, error, field) == [op |-> op, status |-> error, field |-> field]

Idle == [at |-> "idle", section_id |-> NULL, new_parent_section_id |-> NULL]

\* --------------------------------------------------------- repositories
Exists(id) == id \in DOMAIN sections

\* SectionRepository.get_children: rows whose parent_section_id is the id.
get_children(parent_section_id) ==
    {s \in DOMAIN sections : sections[s].parent_section_id = parent_section_id}

\* SectionRepository.get_by_document_id(flat=False): the top-level rows.
get_top_level(document_id) ==
    {s \in DOMAIN sections : /\ sections[s].document_id = document_id
                             /\ sections[s].parent_section_id = NULL}

\* SectionRepository.get_by_document_id(flat=True).
get_by_document_id(document_id) ==
    {s \in DOMAIN sections : sections[s].document_id = document_id}

\* The sequences a query "ORDER BY order_index" over the rows ids may return:
\* ascending order_index, rows with equal order_index in any order.
OrderedBy(ids) ==
    {q \in [1..Cardinality(ids) -> ids] :
        /\ \A i, j \in DOMAIN q : i # j => q[i] # q[j]
        /\ \A i, j \in DOMAIN q : i < j => sections[q[i]].order_index <= sections[q[j]].order_index}

Max(S) == CHOOSE m \in S : \A x \in S : x <= m

\* The sections a query ordered by order_index returns, as one such sequence.
Ordered(ids) == CHOOSE q \in OrderedBy(ids) : TRUE

\* ------------------------------------------------------ tree operations
\* SectionTreeBuilder.would_create_cycle.get_all_descendant_ids: the visited
\* set after expanding node_id, the loop over its children being walk_children.
\* Every id the code adds to descendants it adds to visited in the same step.
RECURSIVE get_all_descendant_ids(_, _), walk_children(_, _)
walk_children(children, visited) ==
    IF children = <<>> THEN visited
    ELSE LET child == Head(children)
         IN IF child \in visited
            THEN walk_children(Tail(children), visited)
            ELSE walk_children(Tail(children),
                               get_all_descendant_ids(child, visited \cup {child}))

get_all_descendant_ids(node_id, visited) ==
    walk_children(Ordered(get_children(node_id)), visited)

\* A walk that starts with nothing visited.
visited_at_start_empty(section_id) == {}

\* The visited set would_create_cycle hands to the first call of
\* get_all_descendant_ids: {section_id}.
visited_at_start(section_id) == {section_id}

\* The same walk, keeping count: walk.visited is the visited set and
\* walk.called lists the node_id of every call of get_all_descendant_ids, in
\* the order of the calls.
RECURSIVE descendant_calls(_, _), descendant_calls_of(_, _)
descendant_calls_of(children, walk) ==
    IF children = <<>> THEN walk
    ELSE LET child == Head(children)
         IN IF child \in walk.visited
            THEN descendant_calls_of(Tail(children), walk)
            ELSE descendant_calls_of(Tail(children),
                     descendant_calls(child, [walk EXCEPT !.visited = @ \cup {child}]))

descendant_calls(node_id, walk) ==
    descendant_calls_of(Ordered(get_children(node_id)),
                        [walk EXCEPT !.called = Append(@, node_id)])

\* A cycle check that forgets the descendants and only compares the two ids.
would_create_cycle_self_only(section_id, new_parent_id) ==
    new_parent_id # NULL /\ section_id = new_parent_id

\* A cycle check that looks at the direct children only.
would_create_cycle_children_only(section_id, new_parent_id) ==
    /\ new_parent_id # NULL
    /\ \/ section_id = new_parent_id
       \/ new_parent_id \in get_children(section_id)

\* SectionTreeBuilder.would_create_cycle.
would_create_cycle(section_id, new_parent_id) ==
    IF new_parent_id = NULL THEN FALSE
    ELSE IF section_id = new_parent_id THEN TRUE
    ELSE new_parent_id \in (get_all_descendant_ids(section_id, {section_id}) \ {section_id})

\* The sibling query of create_section, update_parent and reorder_sections:
\* get_children(parent) when a parent is given, else the document's top level.
siblings_of(document_id, parent_section_id) ==
    IF parent_section_id # NULL
    THEN get_children(parent_section_id)
    ELSE get_top_level(document_id)

\* max(s.order_index for s in siblings) + 1, or 0 without siblings.
next_order_index(siblings) ==
    IF siblings # {}
    THEN Max({sections[s].order_index : s \in siblings}) + 1
    ELSE 0

\* ------------------------------------------------------------- cascades
\* A cascade that stops at the direct children.
cascade_sections_one_level(doomed) ==
    doomed \cup {s \in DOMAIN sections : sections[s].parent_section_id \in doomed}

\* The rows a delete of the rows in doomed takes with it through
\* parent_section_id (ON DELETE CASCADE, and the ORM's child_sections cascade).
RECURSIVE cascade_sections(_)
cascade_sections(doomed) ==
    LET more == {s \in DOMAIN sections : sections[s].parent_section_id \in doomed} \ doomed
    IN IF more = {} THEN doomed ELSE cascade_sections(doomed \cup more)

Restrict(f, keep) == [x \in keep |-> f[x]]

\* ------------------------------------------------------------- sessions
\* session.commit(): the flushed rows are persisted with the call's writes.
commit == pending' = {}

\* session.rollback() in a call that has written nothing itself: the flushed
\* rows are dropped (nothing committed refers to them).
rollback ==
    /\ documents' = documents \ pending
    /\ sections' = Restrict(sections, DOMAIN sections \ pending)
    /\ pending' = {}

\* ------------------------------------------------------ section service
\* SectionService.create_section, entered as op (the service method, or the
\* tool handler that calls it).
create_section_from(op, document_id, parent_section_id, order_index, section_id) ==
    LET parent_missing == parent_section_id # NULL /\ ~Exists(parent_section_id)
        parent_elsewhere == /\ parent_section_id # NULL
                            /\ Exists(parent_section_id)
                            /\ sections[parent_section_id].document_id # document_id
        idx == IF order_index = NoIndex
               THEN next_order_index(siblings_of(document_id, parent_section_id))
               ELSE order_index
    IN /\ UNCHANGED <<links, pc>>
       /\ IF parent_missing
          THEN /\ result' = Raise(op, "NotFoundError", "Section")
               /\ UNCHANGED <<documents, sections, pending>>
          ELSE IF parent_elsewhere
          THEN /\ result' = Raise(op, "ValidationError", "parent_section_id")
               /\ UNCHANGED <<documents, sections, pending>>
          ELSE IF Exists(section_id)
          THEN /\ result' = Raise(op, "DuplicateError", "id")
               /\ UNCHANGED <<documents, sections, pending>>
          ELSE IF document_id \notin documents
          THEN \* the insert violates the foreign key on documents.id
               /\ result' = Raise(op, "DatabaseError", "")
               /\ rollback
          ELSE /\ idx <= MaxOrder
               /\ result' = Ok(op)
               /\ UNCHANGED documents
               /\ commit
               /\ sections' = [x \in DOMAIN sections \cup {section_id} |->
                                 IF x = section_id
                                 THEN [document_id |-> document_id,
                                       parent_section_id |-> parent_section_id,
                                       order_index |-> idx]
                                 ELSE sections[x]]

\* SectionService.create_section.
create_section(document_id, parent_section_id, order_index, section_id) ==
    create_section_from("create_section", document_id, parent_section_id, order_index,
                        section_id)

\* handle_create_section: arguments.get("order_index", 0), so a call without
\* order_index reaches the service with order_index 0.
handle_create_section(document_id, parent_section_id, order_index, section_id) ==
    create_section_from("handle_create_section", document_id, parent_section_id,
                        IF order_index = NoIndex THEN 0 ELSE order_index, section_id)

\* SectionService.update_section (heading, body and metadata are not modelled).
update_section(section_id, order_index) ==
    /\ UNCHANGED <<documents, links, pc>>
       /\ IF ~Exists(section_id)
          THEN /\ result' = Raise("update_section", "NotFoundError", "Section")
               /\ UNCHANGED <<sections, pending>>
          ELSE /\ result' = Ok("update_section")
               /\ commit
               /\ sections' = IF order_index = NoIndex THEN sections
                              ELSE [sections EXCEPT ![section_id].order_index = order_index]

\* SectionService.delete_section.
delete_section(section_id) ==
    LET doomed == cascade_sections({section_id})
    IN /\ UNCHANGED <<documents, pc>>
       /\ IF ~Exists(section_id)
          THEN /\ result' = Returned("delete_section", FALSE)
               /\ UNCHANGED <<sections, links, pending>>
          ELSE /\ result' = Returned("delete_section", TRUE)
               /\ commit
               /\ sections' = Restrict(sections, DOMAIN sections \ doomed)
               /\ links' = Restrict(links, {l \in DOMAIN links : links[l].section_id \notin doomed})

\* A move that leaves the children of the section with its former parent.
moved_without_children(section_id, new_parent_section_id, order_index) ==
    [x \in DOMAIN sections |->
        IF x = section_id
        THEN [sections[x] EXCEPT !.parent_section_id = new_parent_section_id,
                                 !.order_index = order_index]
        ELSE IF sections[x].parent_section_id = section_id
        THEN [sections[x] EXCEPT !.parent_section_id = sections[section_id].parent_section_id]
        ELSE sections[x]]

\* The rows after SectionReorderer.update_parent has written the section.
moved(section_id, new_parent_section_id, order_index) ==
    [sections EXCEPT ![section_id].parent_section_id = new_parent_section_id,
                     ![section_id].order_index = order_index]

\* A sibling list that keeps the section being moved.
other_siblings_with_self(siblings, section_id) == siblings

\* siblings = [s for s in siblings if s.id != section_id].
other_siblings(siblings, section_id) == siblings \ {section_id}

\* SectionReorderer.update_parent: existence and same-document checks, the
\* order_index rule, the write and the commit.
reorderer_update_parent(section_id, new_parent_section_id, order_index) ==
    LET siblings == other_siblings(
                        siblings_of(sections[section_id].document_id, new_parent_section_id),
                        section_id)
        idx == IF order_index = NoIndex THEN next_order_index(siblings) ELSE order_index
    IN /\ UNCHANGED <<documents, links>>
       /\ IF ~Exists(section_id)
          THEN /\ result' = Raise("update_parent", "NotFoundError", "Section")
               /\ UNCHANGED <<sections, pending>>
          ELSE IF new_parent_section_id # NULL /\ ~Exists(new_parent_section_id)
          THEN /\ result' = Raise("update_parent", "NotFoundError", "Section")
               /\ UNCHANGED <<sections, pending>>
          ELSE IF /\ new_parent_section_id # NULL
                  /\ sections[new_parent_section_id].document_id
                        # sections[section_id].document_id
          THEN /\ result' = Raise("update_parent", "ValidationError", "new_parent_section_id")
               /\ UNCHANGED <<sections, pending>>
          ELSE /\ idx <= MaxOrder
               /\ result' = Ok("update_parent")
               /\ commit
               /\ sections' = moved(section_id, new_parent_section_id, idx)

\* SectionService.update_parent, run without interruption.
update_parent(section_id, new_parent_section_id, order_index) ==
    /\ UNCHANGED pc
    /\ IF would_create_cycle(section_id, new_parent_section_id)
       THEN /\ result' = Raise("update_parent", "ValidationError", "new_parent_section_id")
            /\ UNCHANGED <<documents, sections, links, pending>>
       ELSE reorderer_update_parent(section_id, new_parent_section_id, order_index)

\* The order_index a listed section is given: its position in enumerate(),
\* 0-based (the model lists no id twice).
position_index(section_order, section_id) ==
    (CHOOSE i \in DOMAIN section_order : section_order[i] = section_id) - 1

\* A write loop that also moves the siblings the list leaves out behind the
\* listed ones.
reordered_with_rest_behind(section_order) ==
    [x \in DOMAIN sections |->
        IF \E i \in DOMAIN section_order : section_order[i] = x
        THEN [sections[x] EXCEPT !.order_index =
                 (CHOOSE i \in DOMAIN section_order : section_order[i] = x) - 1]
        ELSE IF sections[x].parent_section_id = sections[section_order[1]].parent_section_id
        THEN [sections[x] EXCEPT !.order_index = Len(section_order)]
        ELSE sections[x]]

\* The rows after the write loop of reorder_sections.
reordered(section_order) ==
    [x \in DOMAIN sections |->
        IF \E i \in DOMAIN section_order : section_order[i] = x
        THEN [sections[x] EXCEPT !.order_index = position_index(section_order, x)]
        ELSE sections[x]]

\* A verification that only looks for the row.
offends_when_missing(parent_section_id, document_id, section_id) ==
    ~Exists(section_id)

\* The verification loop of reorder_sections rejects a listed id that names no
\* section, or a section of another parent or of another document.
offends(parent_section_id, document_id, section_id) ==
    \/ ~Exists(section_id)
    \/ sections[section_id].parent_section_id # parent_section_id
    \/ sections[section_id].document_id # document_id

\* SectionService.reorder_sections and SectionReorderer.reorder_sections.
reorder_sections(parent_section_id, section_order) ==
    LET scope_missing == IF parent_section_id # NULL
                         THEN ~Exists(parent_section_id)
                         ELSE ~Exists(section_order[1])
        document_id == IF parent_section_id # NULL
                       THEN sections[parent_section_id].document_id
                       ELSE sections[section_order[1]].document_id
        offenders == {i \in DOMAIN section_order :
                         offends(parent_section_id, document_id, section_order[i])}
        first == CHOOSE i \in offenders : \A j \in offenders : i <= j
    IN /\ UNCHANGED <<documents, links, pc>>
       /\ IF section_order = <<>>
          THEN /\ result' = Raise("reorder_sections", "ValidationError", "section_order")
               /\ UNCHANGED <<sections, pending>>
          ELSE IF scope_missing
          THEN /\ result' = Raise("reorder_sections", "NotFoundError", "Section")
               /\ UNCHANGED <<sections, pending>>
          ELSE IF offenders # {}
          THEN /\ result' = IF ~Exists(section_order[first])
                            THEN Raise("reorder_sections", "NotFoundError", "Section")
                            ELSE Raise("reorder_sections", "ValidationError", "section_order")
               /\ UNCHANGED <<sections, pending>>
          ELSE /\ result' = Ok("reorder_sections")
               /\ commit
               /\ sections' = reordered(section_order)

\* ----------------------------------------------------- document service
\* What create_document passes for one initial section: a dict with heading
\* and body, its id, its parent_section_id or NULL, its order_index (0 when
\* the dict has none).
InitialSection ==
    [id : SecIds, parent_section_id : SecIds \cup {NULL}, order_index : {0},
     heading : {"h"}, body : {"b"}]

\* Dicts for a top-level section that lack "heading", or "body".
MalformedSection ==
    [id : SecIds, parent_section_id : {NULL}, order_index : {0}, body : {"b"}]
        \cup [id : SecIds, parent_section_id : {NULL}, order_index : {0}, heading : {"h"}]

RECURSIVE create_initial_sections(_, _, _)
\* DocumentService._create_initial_sections over the rows table, the session's
\* view of the sections: the rows flushed when the loop ends, the error that
\* ended it ("" when no item raised) and the field the error names.
create_initial_sections(table, document_id, initial_sections) ==
    IF initial_sections = <<>> THEN [error |-> "", field |-> "", table |-> table]
    ELSE LET section_data == Head(initial_sections)
             parent_section_id == section_data.parent_section_id
         IN IF "heading" \notin DOMAIN section_data
            THEN [error |-> "ValidationError", field |-> "heading", table |-> table]
            ELSE IF "body" \notin DOMAIN section_data
            THEN [error |-> "ValidationError", field |-> "body", table |-> table]
            ELSE IF parent_section_id # NULL /\ parent_section_id \notin DOMAIN table
            THEN [error |-> "NotFoundError", field |-> "Section", table |-> table]
            ELSE IF section_data.id \in DOMAIN table
            THEN [error |-> "IntegrityError", field |-> "", table |-> table]
            ELSE create_initial_sections(
                     [x \in DOMAIN table \cup {section_data.id} |->
                         IF x = section_data.id
                         THEN [document_id |-> document_id,
                               parent_section_id |-> parent_section_id,
                               order_index |-> section_data.order_index]
                         ELSE table[x]],
                     document_id, Tail(initial_sections))

\* DocumentService.create_document. The document row is flushed, then the
\* initial sections one by one. A ValidationError of the loop is re-raised as
\* it is, without rollback: the document and the sections flushed before the
\* failing item stay in the session. Its other failures are caught by
\* "except Exception": rollback, then DatabaseError.
create_document(document_id, initial_sections) ==
    LET created == create_initial_sections(sections, document_id, initial_sections)
    IN /\ UNCHANGED <<links, pc>>
       /\ IF document_id \in documents
          THEN /\ result' = Raise("create_document", "DuplicateError", "id")
               /\ UNCHANGED <<documents, sections, pending>>
          ELSE IF created.error = "ValidationError"
          THEN /\ result' = Raise("create_document", "ValidationError", created.field)
               /\ documents' = documents \cup {document_id}
               /\ sections' = created.table
               /\ pending' = pending \cup {document_id}
                                     \cup (DOMAIN created.table \ DOMAIN sections)
          ELSE IF created.error # ""
          THEN /\ result' = Raise("create_document", "DatabaseError", "")
               /\ rollback
          ELSE /\ result' = Ok("create_document")
               /\ documents' = documents \cup {document_id}
               /\ sections' = created.table
               /\ commit

\* The links that go only with the sections in doomed.
cascade_links_of_sections_only(document_id, doomed) ==
    {l \in DOMAIN links : links[l].section_id \in doomed}

\* The links that go with document document_id and the sections in doomed:
\* Document.links and Section.links, both cascade="all, delete-orphan", and
\* ON DELETE CASCADE on links.document_id and links.section_id.
cascade_links(document_id, doomed) ==
    {l \in DOMAIN links : \/ links[l].document_id = document_id
                          \/ links[l].section_id \in doomed}

\* DocumentService.delete_document: the document row goes, and with it the
\* sections and links that reference it, and what those take with them.
delete_document(document_id) ==
    LET doomed == cascade_sections(get_by_document_id(document_id))
    IN /\ UNCHANGED pc
       /\ IF document_id \notin documents
          THEN /\ result' = Returned("delete_document", FALSE)
               /\ UNCHANGED <<documents, sections, links, pending>>
          ELSE /\ result' = Returned("delete_document", TRUE)
               /\ commit
               /\ documents' = documents \ {document_id}
               /\ sections' = Restrict(sections, DOMAIN sections \ doomed)
               /\ links' = Restrict(links, DOMAIN links \ cascade_links(document_id, doomed))

\* --------------------------------------------------------- link service
\* A lookup that finds no link.
get_links_of_no_section(section_id) == {}

\* LinkRepository.get_by_section_id.
get_links_by_section_id(section_id) ==
    {l \in DOMAIN links : links[l].section_id = section_id}

\* LinkRepository.get_by_document_id: every link whose document_id is the
\* document, the links of its sections included.
get_links_by_document_id(document_id) ==
    {l \in DOMAIN links : links[l].document_id = document_id}

\* A section link that carries no document_id.
new_section_link_without_document(section_id, link_type, link_target) ==
    [section_id |-> section_id,
     document_id |-> NULL,
     link_type |-> link_type,
     link_target |-> link_target]

\* The Link row link_section builds: document_id=section.document_id.
new_section_link(section_id, link_type, link_target) ==
    [section_id |-> section_id,
     document_id |-> sections[section_id].document_id,
     link_type |-> link_type,
     link_target |-> link_target]

\* The Link row link_document builds: no section_id.
new_document_link(document_id, link_type, link_target) ==
    [section_id |-> NULL,
     document_id |-> document_id,
     link_type |-> link_type,
     link_target |-> link_target]

\* LinkService.link_section.
link_section(section_id, link_type, link_target, link_id) ==
    /\ UNCHANGED <<documents, sections, pc>>
       /\ IF ~Exists(section_id)
          THEN /\ result' = Raise("link_section", "NotFoundError", "Section")
               /\ UNCHANGED <<links, pending>>
          ELSE IF \E l \in get_links_by_section_id(section_id) :
                     /\ links[l].link_type = link_type
                     /\ links[l].link_target = link_target
          THEN /\ result' = Raise("link_section", "DuplicateError", "section_id+link_type+link_target")
               /\ UNCHANGED <<links, pending>>
          ELSE IF link_id \in DOMAIN links
          THEN /\ result' = Raise("link_section", "DuplicateError", "id")
               /\ UNCHANGED <<links, pending>>
          ELSE /\ result' = Ok("link_section")
               /\ commit
               /\ links' = [x \in DOMAIN links \cup {link_id} |->
                              IF x = link_id
                              THEN new_section_link(section_id, link_type, link_target)
                              ELSE links[x]]

\* LinkService.link_document. The duplicate scan reads get_by_document_id,
\* every link whose document_id is the document.
link_document(document_id, link_type, link_target, link_id) ==
    /\ UNCHANGED <<documents, sections, pc>>
       /\ IF document_id \notin documents
          THEN /\ result' = Raise("link_document", "NotFoundError", "Document")
               /\ UNCHANGED <<links, pending>>
          ELSE IF \E l \in get_links_by_document_id(document_id) :
                     /\ links[l].link_type = link_type
                     /\ links[l].link_target = link_target
          THEN /\ result' = Raise("link_document", "DuplicateError", "document_id+link_type+link_target")
               /\ UNCHANGED <<links, pending>>
          ELSE IF link_id \in DOMAIN links
          THEN /\ result' = Raise("link_document", "DuplicateError", "id")
               /\ UNCHANGED <<links, pending>>
          ELSE /\ result' = Ok("link_document")
               /\ commit
               /\ links' = [x \in DOMAIN links \cup {link_id} |->
                              IF x = link_id
                              THEN new_document_link(document_id, link_type, link_target)
                              ELSE links[x]]

\* LinkService.unlink_section and unlink_document (the same code).
unlink(link_id) ==
    /\ UNCHANGED <<documents, sections, pc>>
       /\ IF link_id \notin DOMAIN links
          THEN /\ result' = Returned("unlink", FALSE)
               /\ UNCHANGED <<links, pending>>
          ELSE /\ result' = Returned("unlink", TRUE)
               /\ commit
               /\ links' = Restrict(links, DOMAIN links \ {link_id})

\* A query by target that does not look at the link_type.
get_by_link_target_of_any_type(link_type, link_target) ==
    {l \in DOMAIN links : links[l].link_target = link_target}

\* LinkRepository.get_by_link_target.
get_by_link_target(link_type, link_target) ==
    {l \in DOMAIN links : /\ links[l].link_type = link_type
                          /\ links[l].link_target = link_target}

\* The rows ids in the order a query returns them (one of the orders).
Rows(ids) ==
    CHOOSE q \in [1..Cardinality(ids) -> ids] : \A i, j \in DOMAIN q : i # j => q[i] # q[j]

\* The loop of LinkService.get_sections_by_link over the links found: a link
\* with a section_id whose section is found appends one summary.
RECURSIVE section_summaries(_, _)
section_summaries(found, summaries) ==
    IF found = <<>> THEN summaries
    ELSE LET link == Head(found)
         IN IF links[link].section_id # NULL /\ Exists(links[link].section_id)
            THEN section_summaries(Tail(found),
                     Append(summaries,
                            [section_id |-> links[link].section_id,
                             document_id |-> sections[links[link].section_id].document_id,
                             link_id |-> link,
                             link_target |-> links[link].link_target]))
            ELSE section_summaries(Tail(found), summaries)

\* LinkService.get_sections_by_link.
get_sections_by_link(link_type, link_target) ==
    section_summaries(Rows(get_by_link_target(link_type, link_target)), <<>>)

\* ------------------------------------------------- concurrent sessions
\* SectionService.update_parent up to its call of the reorderer, in session t:
\* the cycle check reads the committed rows; no lock is taken.
check_update_parent(t, section_id, new_parent_section_id) ==
    /\ pc[t].at = "idle"
    /\ UNCHANGED <<documents, sections, links, pending>>
    /\ IF would_create_cycle(section_id, new_parent_section_id)
       THEN /\ result' = Raise("update_parent", "ValidationError", "new_parent_section_id")
            /\ UNCHANGED pc
       ELSE /\ pc' = [pc EXCEPT ![t] = [at |-> "checked",
                                        section_id |-> section_id,
                                        new_parent_section_id |-> new_parent_section_id]]
            /\ UNCHANGED result

\* The rest of the call in session t: SectionReorderer.update_parent with no
\* explicit order_index, reading the rows as they are now.
write_update_parent(t) ==
    /\ pc[t].at = "checked"
    /\ reorderer_update_parent(pc[t].section_id, pc[t].new_parent_section_id, NoIndex)
    /\ pc' = [pc EXCEPT ![t] = Idle]

\* A column that references nothing: any value is stored.
foreign_key_unenforced(rows, id) == TRUE

\* ForeignKey(...) on a nullable column, enforced by the backend when the
\* statement runs (PRAGMA foreign_keys=ON for SQLite): the value is NULL or
\* the id of one of the rows.
foreign_key(rows, id) == id = NULL \/ id \in rows

\* LinkService.link_section up to the insert, in session t: the section
\* lookup, the duplicate scan and the id lookup read the committed rows; no
\* lock is taken and the table has no unique constraint on the owner and key.
scan_link_section(t, section_id, link_type, link_target, link_id) ==
    /\ pc[t].at = "idle"
    /\ UNCHANGED <<documents, sections, links, pending>>
    /\ IF ~Exists(section_id)
       THEN /\ result' = Raise("link_section", "NotFoundError", "Section")
            /\ UNCHANGED pc
       ELSE IF \E l \in get_links_by_section_id(section_id) :
                  /\ links[l].link_type = link_type
                  /\ links[l].link_target = link_target
       THEN /\ result' = Raise("link_section", "DuplicateError", "section_id+link_type+link_target")
            /\ UNCHANGED pc
       ELSE IF link_id \in DOMAIN links
       THEN /\ result' = Raise("link_section", "DuplicateError", "id")
            /\ UNCHANGED pc
       ELSE /\ pc' = [pc EXCEPT ![t] = [at |-> "scanned",
                                        link |-> new_section_link(section_id, link_type,
                                                                  link_target),
                                        link_id |-> link_id]]
            /\ UNCHANGED result

\* The rest of the call in session t: the insert of the Link row built from
\* what the scan read, and the commit. An id that another session has
\* inserted since is refused by the primary key, a section or document
\* deleted since by the foreign keys; "except Exception" rolls back and
\* raises DatabaseError.
insert_link_section(t) ==
    /\ pc[t].at = "scanned"
    /\ pc' = [pc EXCEPT ![t] = Idle]
    /\ IF \/ pc[t].link_id \in DOMAIN links
          \/ ~foreign_key(DOMAIN sections, pc[t].link.section_id)
          \/ ~foreign_key(documents, pc[t].link.document_id)
       THEN /\ result' = Raise("link_section", "DatabaseError", "")
            /\ rollback
            /\ UNCHANGED links
       ELSE /\ result' = Ok("link_section")
            /\ commit
            /\ UNCHANGED <<documents, sections>>
            /\ links' = [x \in DOMAIN links \cup {pc[t].link_id} |->
                           IF x = pc[t].link_id THEN pc[t].link ELSE links[x]]

\* SectionService.update_parent up to the flush, in session t: the cycle
\* check, the lookups of SectionReorderer.update_parent and the order_index
\* rule read the committed rows; the section object now carries the new
\* parent_section_id and order_index.
verify_update_parent(t, section_id, new_parent_section_id) ==
    /\ pc[t].at = "idle"
    /\ UNCHANGED <<documents, sections, links, pending>>
    /\ IF would_create_cycle(section_id, new_parent_section_id)
       THEN /\ result' = Raise("update_parent", "ValidationError", "new_parent_section_id")
            /\ UNCHANGED pc
       ELSE IF ~Exists(section_id)
       THEN /\ result' = Raise("update_parent", "NotFoundError", "Section")
            /\ UNCHANGED pc
       ELSE IF new_parent_section_id # NULL /\ ~Exists(new_parent_section_id)
       THEN /\ result' = Raise("update_parent", "NotFoundError", "Section")
            /\ UNCHANGED pc
       ELSE IF /\ new_parent_section_id # NULL
               /\ sections[new_parent_section_id].document_id
                     # sections[section_id].document_id
       THEN /\ result' = Raise("update_parent", "ValidationError", "new_parent_section_id")
            /\ UNCHANGED pc
       ELSE LET idx == next_order_index(
                           other_siblings(siblings_of(sections[section_id].document_id,
                                                      new_parent_section_id),
                                          section_id))
            IN /\ idx <= MaxOrder
               /\ pc' = [pc EXCEPT ![t] = [at |-> "verified",
                                           section_id |-> section_id,
                                           new_parent_section_id |-> new_parent_section_id,
                                           order_index |-> idx]]
               /\ UNCHANGED result

\* The rest of the call in session t: section_repo.update flushes the UPDATE
\* of the row and the session commits. An UPDATE that finds no row, or whose
\* parent_section_id names no section, fails; "except Exception" rolls back
\* and raises DatabaseError.
flush_update_parent(t) ==
    /\ pc[t].at = "verified"
    /\ pc' = [pc EXCEPT ![t] = Idle]
    /\ IF /\ Exists(pc[t].section_id)
          /\ foreign_key(DOMAIN sections, pc[t].new_parent_section_id)
       THEN /\ result' = Ok("update_parent")
            /\ commit
            /\ UNCHANGED <<documents, links>>
            /\ sections' = moved(pc[t].section_id, pc[t].new_parent_section_id,
                                 pc[t].order_index)
       ELSE /\ result' = Raise("update_parent", "DatabaseError", "")
            /\ UNCHANGED links
            /\ rollback

\* SectionService.create_section up to the insert, in session t (no
\* order_index given): the lookups and the order_index rule read the
\* committed rows.
validate_create_section(t, document_id, parent_section_id, section_id) ==
    /\ pc[t].at = "idle"
    /\ UNCHANGED <<documents, sections, links, pending>>
    /\ IF parent_section_id # NULL /\ ~Exists(parent_section_id)
       THEN /\ result' = Raise("create_section", "NotFoundError", "Section")
            /\ UNCHANGED pc
       ELSE IF /\ parent_section_id # NULL
               /\ sections[parent_section_id].document_id # document_id
       THEN /\ result' = Raise("create_section", "ValidationError", "parent_section_id")
            /\ UNCHANGED pc
       ELSE IF Exists(section_id)
       THEN /\ result' = Raise("create_section", "DuplicateError", "id")
            /\ UNCHANGED pc
       ELSE LET idx == next_order_index(siblings_of(document_id, parent_section_id))
            IN /\ idx <= MaxOrder
               /\ pc' = [pc EXCEPT ![t] = [at |-> "validated",
                                           section_id |-> section_id,
                                           section |-> [document_id |-> document_id,
                                                        parent_section_id |-> parent_section_id,
                                                        order_index |-> idx]]]
               /\ UNCHANGED result

\* The rest of the call in session t: section_repo.create flushes the INSERT
\* and the session commits. The primary key and the two foreign keys of the
\* row are checked by the backend; a refused INSERT is rolled back and raises
\* DatabaseError.
insert_create_section(t) ==
    /\ pc[t].at = "validated"
    /\ pc' = [pc EXCEPT ![t] = Idle]
    /\ IF /\ ~Exists(pc[t].section_id)
          /\ foreign_key(documents, pc[t].section.document_id)
          /\ foreign_key(DOMAIN sections, pc[t].section.parent_section_id)
       THEN /\ result' = Ok("create_section")
            /\ commit
            /\ UNCHANGED <<documents, links>>
            /\ sections' = [x \in DOMAIN sections \cup {pc[t].section_id} |->
                              IF x = pc[t].section_id THEN pc[t].section ELSE sections[x]]
       ELSE /\ result' = Raise("create_section", "DatabaseError", "")
            /\ UNCHANGED links
            /\ rollback

\* ---------------------------------------------------------------- reads
\* A walk that appends each section met, so that the list starts at the leaf.
RECURSIVE path_from_leaf_first(_, _)
path_from_leaf_first(current, path) ==
    IF ~Exists(current) THEN path
    ELSE IF sections[current].parent_section_id # NULL
    THEN path_from_leaf_first(sections[current].parent_section_id, Append(path, current))
    ELSE Append(path, current)

\* The loop of SectionRepository.get_path_to_root: each section met goes to
\* the front of path, and the walk stops at a section without parent or at an
\* id that names no section.
RECURSIVE path_from(_, _)
path_from(current, path) ==
    IF ~Exists(current) THEN path
    ELSE IF sections[current].parent_section_id # NULL
    THEN path_from(sections[current].parent_section_id, <<current>> \o path)
    ELSE <<current>> \o path

\* SectionRepository.get_path_to_root.
get_path_to_root(section_id) == path_from(section_id, <<>>)

\* SectionService.get_section_path of an existing section (an empty path
\* raises NotFoundError).
get_section_path(section_id) == get_path_to_root(section_id)

\* The lists a query without ORDER BY over the rows ids may return: the rows
\* in whatever order the database yields them.
Unordered(ids) ==
    {q \in [1..Cardinality(ids) -> ids] : \A i, j \in DOMAIN q : i # j => q[i] # q[j]}

\* The child_sections list of a node of a loaded tree: the relationship
\* Section.child_sections (top of the tree) or the select by parent_section_id
\* in _load_children_recursive (below it), neither with an order_by.
child_sections(section_id) == Unordered(get_children(section_id))

\* SectionRepository._load_children_recursive: the ids of the section and of
\* everything loaded beneath it.
RECURSIVE load_children_recursive(_)
load_children_recursive(section_id) ==
    {section_id} \cup UNION {load_children_recursive(child) : child \in get_children(section_id)}

\* SectionRepository.get_section_tree: the ids of the nodes of the tree
\* returned for an existing section.
get_section_tree(section_id) == load_children_recursive(section_id)

\* SectionRepository.get_section_tree_by_document, as the service returns it
\* for flat=False: the ids of the nodes of the returned trees.
get_section_tree_by_document(document_id) ==
    UNION {load_children_recursive(top) : top \in get_top_level(document_id)}

\* Whether the loop of SectionRepository.get_path_to_root, entered with
\* current and allowed rounds more iterations, ends. The loop keeps no record
\* of the sections it has met; with n sections stored, a walk that has not
\* ended after n iterations has met one of them twice and goes round for ever.
RECURSIVE path_ends_within(_, _)
path_ends_within(current, rounds) ==
    IF ~Exists(current) THEN TRUE
    ELSE IF sections[current].parent_section_id = NULL THEN TRUE
    ELSE IF rounds = 0 THEN FALSE
    ELSE path_ends_within(sections[current].parent_section_id, rounds - 1)

get_path_to_root_ends(section_id) ==
    path_ends_within(section_id, Cardinality(DOMAIN sections))

\* Whether SectionRepository._load_children_recursive, entered with the
\* section and allowed depth more nested calls, returns. It keeps no record of
\* the sections it has loaded either; a chain of calls deeper than the number
\* of sections has entered one of them twice and nests until the interpreter
\* refuses to recurse further (RecursionError) instead of returning a tree.
RECURSIVE load_children_returns_within(_, _)
load_children_returns_within(section_id, depth) ==
    \A child \in get_children(section_id) :
        depth > 0 /\ load_children_returns_within(child, depth - 1)

load_children_recursive_returns(section_id) ==
    load_children_returns_within(section_id, Cardinality(DOMAIN sections))

\* The sections get_document takes out of the collection Document.sections:
\* the collection is loaded with every section of the document (joinedload)
\* and then assigned the top-level sections. The relationship has
\* cascade="all, delete-orphan", so the next flush deletes what was taken out.
orphaned(document_id) ==
    get_by_document_id(document_id) \ get_top_level(document_id)

\* DocumentService.get_document(include_sections=True, include_links=True) and
\* the commit that closes the session of the call (Database.session). The
\* links assigned to Document.links are the ones the relationship holds.
get_document(document_id) ==
    LET doomed == cascade_sections(orphaned(document_id))
    IN /\ UNCHANGED <<documents, pc>>
       /\ IF document_id \notin documents
          THEN /\ result' = Raise("get_document", "NotFoundError", "Document")
               /\ UNCHANGED <<sections, links, pending>>
          ELSE /\ result' = Ok("get_document")
               /\ commit
               /\ sections' = Restrict(sections, DOMAIN sections \ doomed)
               /\ links' = Restrict(links, {l \in DOMAIN links : links[l].section_id \notin doomed})

\* ----------------------------------------------------------- forests
\* The ids met walking parent_section_id upward from the parent of section_id,
\* stopping at a top-level section, at a missing row or at an id met before.
RECURSIVE walk_up(_, _)
walk_up(section_id, met) ==
    IF ~Exists(section_id) THEN met
    ELSE LET parent_section_id == sections[section_id].parent_section_id
         IN IF parent_section_id = NULL \/ parent_section_id \in met THEN met
            ELSE walk_up(parent_section_id, met \cup {parent_section_id})

Ancestors(section_id) == walk_up(section_id, {})

\* The transitive descendants of section_id: the sections it is an ancestor of.
Descendants(section_id) == {s \in DOMAIN sections : section_id \in Ancestors(s)}

\* -------------------------------------------------------- specification
Init ==
    /\ documents = {}
    /\ sections = <<>>
    /\ links = <<>>
    /\ result = Ok("init")
    /\ pc = [t \in Sessions |-> Idle]
    /\ pending = {}

SeqsUpTo(S, n) == UNION {[1..k -> S] : k \in 0..n}

\* The initial_sections arguments of create_document: none, or one section.
InitialLists == {<<>>} \cup {<<i>> : i \in InitialSection}

\* The section_order arguments: the lists of distinct section ids, the empty
\* list included.
Orderings ==
    {l \in SeqsUpTo(SecIds, Cardinality(SecIds)) : \A i, j \in DOMAIN l : i # j => l[i] # l[j]}

\* The service operations on documents and sections, one call after another.
Next ==
    \/ \E d \in DocIds, p \in SecIds \cup {NULL}, o \in Orders \cup {NoIndex}, s \in SecIds :
          create_section(d, p, o, s)
    \/ \E s \in SecIds, o \in Orders \cup {NoIndex} : update_section(s, o)
    \/ \E s \in SecIds : delete_section(s)
    \/ \E s \in SecIds, p \in SecIds \cup {NULL}, o \in Orders \cup {NoIndex} :
          update_parent(s, p, o)
    \/ \E p \in SecIds \cup {NULL}, l \in Orderings :
          reorder_sections(p, l)
    \/ \E d \in DocIds, i \in InitialLists : create_document(d, i)
    \/ \E d \in DocIds : delete_document(d)

Spec == Init /\ [][Next]_vars

\* The create_section tool, on documents created empty.
NextTool ==
    \/ \E d \in DocIds : create_document(d, <<>>)
    \/ \E d \in DocIds, p \in SecIds \cup {NULL}, o \in Orders \cup {NoIndex}, s \in SecIds :
          handle_create_section(d, p, o, s)
    \/ \E s \in SecIds : delete_section(s)

SpecTool == Init /\ [][NextTool]_vars

\* Documents, sections and links, created and deleted. Sections come from
\* initial_sections and from the create_section tool called with no
\* order_index, so every order_index is 0.
NextCascade ==
    \/ \E d \in DocIds, i \in InitialLists : create_document(d, i)
    \/ \E d \in DocIds, p \in SecIds \cup {NULL}, s \in SecIds :
          handle_create_section(d, p, NoIndex, s)
    \/ \E s \in SecIds, k \in LinkKeys, l \in LinkIds : link_section(s, k[1], k[2], l)
    \/ \E d \in DocIds, k \in LinkKeys, l \in LinkIds : link_document(d, k[1], k[2], l)
    \/ \E l \in LinkIds : unlink(l)
    \/ \E s \in SecIds : delete_section(s)
    \/ \E d \in DocIds : delete_document(d)

SpecCascade == Init /\ [][NextCascade]_vars

\* Two sessions moving sections at the same time: each update_parent call is
\* its check, then (any number of steps of the other session later) its write.
\* Sections are created while no call is under way, so that whatever goes
\* wrong comes from the update_parent calls alone.
NextConcurrent ==
    \/ \E d \in DocIds : create_document(d, <<>>)
    \/ \E d \in DocIds, p \in SecIds \cup {NULL}, s \in SecIds :
          /\ \A t \in Sessions : pc[t].at = "idle"
          /\ create_section(d, p, NoIndex, s)
    \/ \E t \in Sessions, s \in SecIds, p \in SecIds \cup {NULL} :
          check_update_parent(t, s, p)
    \/ \E t \in Sessions : write_update_parent(t)

SpecConcurrent == Init /\ [][NextConcurrent]_vars

\* Two sessions moving the sections of one document at the same time.
NextCycles ==
    \/ create_document("d1", <<>>)
    \/ \E s \in SecIds :
          /\ \A t \in Sessions : pc[t].at = "idle"
          /\ create_section("d1", NULL, NoIndex, s)
    \/ \E t \in Sessions, s \in SecIds, p \in SecIds \cup {NULL} :
          check_update_parent(t, s, p)
    \/ \E t \in Sessions : write_update_parent(t)

SpecCycles == Init /\ [][NextCycles]_vars

\* Two sessions linking the top-level sections of documents at the same time:
\* each link_section call is its scan, then (any number of steps of the other
\* session later) its insert.
NextLinkRace ==
    \/ \E d \in DocIds : create_document(d, <<>>)
    \/ \E d \in DocIds, s \in SecIds :
          /\ \A t \in Sessions : pc[t].at = "idle"
          /\ handle_create_section(d, NULL, NoIndex, s)
    \/ \E t \in Sessions, s \in SecIds, k \in LinkKeys, l \in LinkIds :
          scan_link_section(t, s, k[1], k[2], l)
    \/ \E t \in Sessions : insert_link_section(t)
    \/ \E l \in LinkIds : /\ \A t \in Sessions : pc[t].at = "idle"
                          /\ unlink(l)

SpecLinkRace == Init /\ [][NextLinkRace]_vars

\* No other session is in the middle of a call.
Alone(t) == \A u \in Sessions \ {t} : pc[u].at = "idle"

\* A session creating, moving or linking the sections of a document while
\* another deletes the document and its sections: each create_section,
\* update_parent and link_section call is its reads, then (any number of
\* deletes later) its write under the constraints of the backend; a delete is
\* one statement and its cascade.
NextIntegrity ==
    \/ create_document("d1", <<>>)
    \/ \E t \in Sessions, p \in SecIds \cup {NULL}, s \in SecIds :
          Alone(t) /\ validate_create_section(t, "d1", p, s)
    \/ \E t \in Sessions : insert_create_section(t)
    \/ \E t \in Sessions, s \in SecIds, p \in SecIds \cup {NULL} :
          Alone(t) /\ verify_update_parent(t, s, p)
    \/ \E t \in Sessions : flush_update_parent(t)
    \/ \E t \in Sessions, s \in SecIds, k \in LinkKeys, l \in LinkIds :
          Alone(t) /\ scan_link_section(t, s, k[1], k[2], l)
    \/ \E t \in Sessions : insert_link_section(t)
    \/ \E s \in SecIds : delete_section(s)
    \/ delete_document("d1")

SpecIntegrity == Init /\ [][NextIntegrity]_vars

\* Sections created with the service's order_index, then moved and deleted.
NextMove ==
    \/ \E d \in DocIds, i \in InitialLists : create_document(d, i)
    \/ \E d \in DocIds, p \in SecIds \cup {NULL}, s \in SecIds :
          create_section(d, p, NoIndex, s)
    \/ \E s \in SecIds, p \in SecIds \cup {NULL} : update_parent(s, p, NoIndex)
    \/ \E s \in SecIds : delete_section(s)

SpecMove == Init /\ [][NextMove]_vars

\* The initial_sections arguments with a second item: a top-level section,
\* then a malformed dict or a section of any parent.
PairLists ==
    {<<a, b>> : a \in {i \in InitialSection : i.parent_section_id = NULL},
                b \in MalformedSection \cup InitialSection}

\* Documents created with initial sections that may fail, and the later
\* calls of the same session that commit.
NextRollback ==
    \/ \E d \in DocIds, i \in InitialLists \cup PairLists : create_document(d, i)
    \/ \E d \in DocIds, s \in SecIds : create_section(d, NULL, NoIndex, s)
    \/ \E s \in SecIds : delete_section(s)
    \/ \E d \in DocIds : delete_document(d)

SpecRollback == Init /\ [][NextRollback]_vars

\* Sections created with the service's order_index, then moved with and
\* without an explicit order_index.
NextReparent ==
    \/ \E d \in DocIds, i \in InitialLists : create_document(d, i)
    \/ \E d \in DocIds, p \in SecIds \cup {NULL}, s \in SecIds :
          create_section(d, p, NoIndex, s)
    \/ \E s \in SecIds, p \in SecIds \cup {NULL}, o \in Orders \cup {NoIndex} :
          update_parent(s, p, o)

SpecReparent == Init /\ [][NextReparent]_vars

\* Sections created with the service's order_index, then reordered and deleted.
NextReorder ==
    \/ \E d \in DocIds, i \in InitialLists : create_document(d, i)
    \/ \E d \in DocIds, p \in SecIds \cup {NULL}, s \in SecIds :
          create_section(d, p, NoIndex, s)
    \/ \E p \in SecIds \cup {NULL}, l \in Orderings : reorder_sections(p, l)
    \/ \E s \in SecIds : delete_section(s)

SpecReorder == Init /\ [][NextReorder]_vars

\* Documents with nested sections and links, created and read.
NextRead ==
    \/ \E d \in DocIds : create_document(d, <<>>)
    \/ \E d \in DocIds, p \in SecIds \cup {NULL}, s \in SecIds :
          create_section(d, p, NoIndex, s)
    \/ \E s \in SecIds, k \in LinkKeys, l \in LinkIds : link_section(s, k[1], k[2], l)
    \/ \E d \in DocIds, k \in LinkKeys, l \in LinkIds : link_document(d, k[1], k[2], l)
    \/ \E d \in DocIds : get_document(d)

SpecRead == Init /\ [][NextRead]_vars

\* Links of two types, attached to top-level sections and to documents. The
\* sections come from the create_section tool called with no order_index.
NextLinks ==
    \/ \E d \in DocIds : create_document(d, <<>>)
    \/ \E d \in DocIds, s \in SecIds : handle_create_section(d, NULL, NoIndex, s)
    \/ \E s \in SecIds, k \in WellFormedKeys, l \in MoreLinkIds :
          link_section(s, k[1], k[2], l)
    \/ \E d \in DocIds, k \in WellFormedKeys, l \in MoreLinkIds :
          link_document(d, k[1], k[2], l)
    \/ \E l \in MoreLinkIds : unlink(l)
    \/ \E s \in SecIds : delete_section(s)

SpecLinks == Init /\ [][NextLinks]_vars

\* ---------------------------------------------------------------- claims
\* C1: after any sequence of section operations run one after another, the
\* parent pointers form a forest: walking parent_section_id upward from a
\* section never comes back to that section or to any section already met.
C1_Forest == \A s \in DOMAIN sections : s \notin Ancestors(s)

\* A move into the mover's own subtree was asked for and refused, with a chain
\* of three sections stored.
C1_Witness ==
    /\ result = Raise("update_parent", "ValidationError", "new_parent_section_id")
    /\ \E s \in DOMAIN sections : Cardinality(Ancestors(s)) = 2

\* C3: every section with a parent is in the document of that parent.
C3_ParentInSameDocument ==
    \A s \in DOMAIN sections :
        LET p == sections[s].parent_section_id
        IN (p # NULL /\ Exists(p)) => sections[s].document_id = sections[p].document_id

\* C6: on the stored forest, would_create_cycle(S, P) is true exactly when P
\* is S or a transitive descendant of S; it is false for None, for siblings,
\* for ancestors, for sections of other trees and for ids naming no section.
C6_CycleIffSelfOrDescendant ==
    \A s \in SecIds, p \in SecIds \cup {NULL} :
        would_create_cycle(s, p) <=> (p # NULL /\ (p = s \/ p \in Descendants(s)))

\* A section has a grandchild (the check has to recurse) while another pair of
\* sections is unrelated in both directions.
C6_Witness ==
    /\ \E s, p \in DOMAIN sections :
          /\ s \in Ancestors(p)
          /\ sections[p].parent_section_id # s
          /\ would_create_cycle(s, p)
          /\ ~would_create_cycle(p, s)

\* The sibling scope of the glossary: the sections of one document under one
\* parent (NULL for the top level).
SiblingScope(document_id, parent_section_id) ==
    {s \in DOMAIN sections : /\ sections[s].document_id = document_id
                             /\ sections[s].parent_section_id = parent_section_id}

\* C8: create_section called with order_index None stores 1 + the largest
\* order_index among the sections of the same (document_id, parent_section_id),
\* or 0 when there is none.
C8_AutoIncrementOverSiblingScope ==
    [][result' = Ok("create_section") =>
       \A s \in (DOMAIN sections') \ DOMAIN sections :
          LET d == sections'[s].document_id
              p == sections'[s].parent_section_id
              scope == SiblingScope(d, p)
          IN create_section(d, p, NoIndex, s)
             => sections'[s].order_index =
                    IF scope = {} THEN 0
                    ELSE Max({sections[x].order_index : x \in scope}) + 1]_vars

\* What reading the children of a scope back may return: get_children of the
\* parent, or the top level of the document, ordered by order_index.
ReadBack(document_id, parent_section_id) ==
    OrderedBy(siblings_of(document_id, parent_section_id))

\* C10: after reorder_sections(P, L) succeeds with L listing every section of
\* the sibling scope P exactly once, L[i] has order_index i (0-based) and the
\* children of P read back in order_index order are exactly L.
C10_ReorderThenReadBack ==
    [][result' = Ok("reorder_sections") =>
        \A p \in SecIds \cup {NULL}, l \in Orderings \ {<<>>} :
            LET d == IF p # NULL
                     THEN (IF Exists(p) THEN sections[p].document_id ELSE NULL)
                     ELSE (IF Exists(l[1]) THEN sections[l[1]].document_id ELSE NULL)
            IN (/\ {l[i] : i \in DOMAIN l} = SiblingScope(d, p)
                /\ reorder_sections(p, l))
               => /\ \A i \in DOMAIN l : sections'[l[i]].order_index = i - 1
                  /\ ReadBack(d, p)' = {l}]_vars

\* C9: a create_section tool call without order_index stores what the service
\* rule gives: 1 + the largest order_index among the current siblings, or 0.
C9_ToolAutoIncrement ==
    [][result' = Ok("handle_create_section") =>
       \A s \in (DOMAIN sections') \ DOMAIN sections :
          LET d == sections'[s].document_id
              p == sections'[s].parent_section_id
              scope == SiblingScope(d, p)
          IN handle_create_section(d, p, NoIndex, s)
             => sections'[s].order_index =
                    IF scope = {} THEN 0
                    ELSE Max({sections[x].order_index : x \in scope}) + 1]_vars

\* C2: when no update_parent call is under way (every concurrent call has
\* committed), the parent pointers form a forest.
C2_ForestAfterConcurrentMoves ==
    (\A t \in Sessions : pc[t].at = "idle")
        => \A s \in DOMAIN sections : s \notin Ancestors(s)

\* C4: after delete_document(D) returns True, no section and no link with
\* document_id = D is left.
C4_DeleteDocumentCascade ==
    [][result' = Returned("delete_document", TRUE) =>
       \A d \in documents \ documents' :
          /\ \A s \in DOMAIN sections' : sections'[s].document_id # d
          /\ \A l \in DOMAIN links' : links'[l].document_id # d]_vars

\* delete_document returned True and left the other document with a section
\* and with a link of its own.
C4_Witness ==
    /\ result = Returned("delete_document", TRUE)
    /\ documents # {}
    /\ sections # <<>>
    /\ links # <<>>

\* C5: after delete_section(S) returns True, the sections left are the former
\* ones without S and its transitive descendants, unchanged, and the links
\* left are the former ones whose section was not deleted (links of a
\* document, which have no section, are kept).
C5_DeleteSectionCascade ==
    [][result' = Returned("delete_section", TRUE) =>
       \A s \in DOMAIN sections :
          delete_section(s) =>
             LET gone == {s} \cup Descendants(s)
             IN /\ sections' = Restrict(sections, DOMAIN sections \ gone)
                /\ links' = Restrict(links, {l \in DOMAIN links :
                                               links[l].section_id \notin gone})]_vars

\* delete_section returned True and left a section, a link of a section and
\* a link of a document.
C5_Witness ==
    /\ result = Returned("delete_section", TRUE)
    /\ sections # <<>>
    /\ \E l \in DOMAIN links : links[l].section_id = NULL
    /\ \E l \in DOMAIN links : links[l].section_id # NULL

\* C7: update_parent(S, P) with P equal to S or a transitive descendant of S
\* raises ValidationError naming new_parent_section_id and changes no section.
C7_CyclicMoveRejected ==
    [][result'.op = "update_parent" =>
       LET refused == /\ result' = Raise("update_parent", "ValidationError",
                                         "new_parent_section_id")
                      /\ sections' = sections
       IN \/ refused
          \/ \A s \in SecIds, p \in SecIds :
                (p = s \/ p \in Descendants(s)) =>
                   ~update_parent(s, p, NoIndex)]_vars

\* A move was refused for its cycle while some section had a grandchild and
\* the sections did not all sit at order_index 0.
C7_Witness ==
    /\ result = Raise("update_parent", "ValidationError", "new_parent_section_id")
    /\ \E s \in DOMAIN sections : Cardinality(Descendants(s)) = 2
    /\ \E s \in DOMAIN sections : sections[s].order_index # 0

\* The ids a list names.
Listed(section_order) == {section_order[i] : i \in DOMAIN section_order}

\* C11: a successful reorder_sections(P, L) adds and removes no section,
\* changes no parent_section_id and no document_id, and changes the
\* order_index of no section that L does not list.
C11_ReorderFrame ==
    [][result' = Ok("reorder_sections") =>
       /\ DOMAIN sections' = DOMAIN sections
       /\ LET changed == {x \in DOMAIN sections : sections'[x] # sections[x]}
          IN /\ \A x \in changed :
                   /\ sections'[x].parent_section_id = sections[x].parent_section_id
                   /\ sections'[x].document_id = sections[x].document_id
             /\ \A p \in SecIds \cup {NULL}, l \in Orderings \ {<<>>} :
                   reorder_sections(p, l) => changed \subseteq Listed(l)]_vars

\* A reorder succeeded and left two sections of one sibling scope at the same
\* order_index: the list named only a part of the scope.
C11_Witness ==
    /\ result = Ok("reorder_sections")
    /\ \E a, b \in DOMAIN sections :
          /\ a # b
          /\ sections[a].document_id = sections[b].document_id
          /\ sections[a].parent_section_id = sections[b].parent_section_id
          /\ sections[a].order_index = sections[b].order_index

\* A list that reorder_sections(P, L) has to refuse: one of its ids names no
\* section, a section whose parent is not P, a section of another document
\* than P, or a section of another document than another listed one.
Offending(parent_section_id, section_order) ==
    \E i \in DOMAIN section_order :
        LET x == section_order[i]
        IN \/ ~Exists(x)
           \/ sections[x].parent_section_id # parent_section_id
           \/ /\ parent_section_id # NULL
              /\ Exists(parent_section_id)
              /\ sections[x].document_id # sections[parent_section_id].document_id
           \/ \E j \in DOMAIN section_order :
                 /\ Exists(section_order[j])
                 /\ sections[x].document_id # sections[section_order[j]].document_id

\* C12: reorder_sections(P, L) with an offending id anywhere in L raises
\* NotFoundError or ValidationError and leaves every section as it was, the
\* sections listed before the offending id included.
C12_ReorderRefusedWhole ==
    [][result'.op = "reorder_sections" =>
       LET refused == /\ result'.status \in {"NotFoundError", "ValidationError"}
                      /\ sections' = sections
       IN \/ refused
          \/ \A p \in SecIds \cup {NULL}, l \in Orderings \ {<<>>} :
                Offending(p, l) => ~reorder_sections(p, l)]_vars

\* A reorder was refused for a listed section of another scope while some
\* scope held two sections, so that a list could name one of them first and
\* the stranger second.
C12_Witness ==
    /\ result = Raise("reorder_sections", "ValidationError", "section_order")
    /\ \E a, b, c \in DOMAIN sections :
          /\ a # b
          /\ sections[a].document_id = sections[b].document_id
          /\ sections[a].parent_section_id = sections[b].parent_section_id
          /\ sections[c].parent_section_id # sections[a].parent_section_id

\* C13: a successful update_parent(S, P, idx) adds and removes no section,
\* changes no section but S, leaves S its document_id, and leaves S the same
\* set of transitive descendants. (A successful call leaves S under P at idx,
\* so the calls a step can be are read off the rows of the next state.)
C13_MoveFrame ==
    [][result' = Ok("update_parent") =>
       /\ DOMAIN sections' = DOMAIN sections
       /\ LET changed == {x \in DOMAIN sections : sections'[x] # sections[x]}
          IN /\ \A x \in changed :
                   sections'[x].document_id = sections[x].document_id
             /\ \A s \in DOMAIN sections :
                \A p \in {sections'[s].parent_section_id},
                   o \in {NoIndex, sections'[s].order_index} :
                   update_parent(s, p, o) =>
                      /\ changed \subseteq {s}
                      /\ Descendants(s)' = Descendants(s)]_vars

\* A move succeeded, and a section that has a parent has a child of its own.
C13_Witness ==
    /\ result = Ok("update_parent")
    /\ \E s \in DOMAIN sections :
          /\ sections[s].parent_section_id # NULL
          /\ Descendants(s) # {}

\* C14: update_parent(S, P) with S naming no section raises NotFoundError for
\* a Section whatever P is (None, a section, an id naming no section, S
\* itself), and changes nothing.
C14_MoveOfMissingSection ==
    [][result'.op = "update_parent" =>
       LET refused == /\ result' = Raise("update_parent", "NotFoundError", "Section")
                      /\ UNCHANGED <<documents, sections, links>>
       IN \/ refused
          \/ \A s \in SecIds \ DOMAIN sections, p \in SecIds \cup {NULL} :
                ~update_parent(s, p, NoIndex)]_vars

\* C15: for every stored section X, get_section_path(X) is a non-empty list
\* that starts at a top-level section, ends at X, and in which each element is
\* the parent of the next; it has one element when X is top-level.
C15_PathFromRoot ==
    \A x \in DOMAIN sections :
        LET path == get_section_path(x)
        IN /\ Len(path) >= 1
           /\ sections[path[1]].parent_section_id = NULL
           /\ path[Len(path)] = x
           /\ \A i \in 1..(Len(path) - 1) :
                 sections[path[i + 1]].parent_section_id = path[i]
           /\ sections[x].parent_section_id = NULL => Len(path) = 1

\* Some stored section has a path of three sections.
C15_Witness == \E x \in DOMAIN sections : Len(get_section_path(x)) = 3

\* C16: for every document D, the ids of the tree read of D (top-level
\* sections and everything loaded beneath them) are the ids of the flat read
\* of D.
C16_TreeAndFlatAgree ==
    \A d \in DocIds : get_section_tree_by_document(d) = get_by_document_id(d)

\* C17: in the trees returned for a document and for a section, the
\* child_sections list of every node, at every depth, is in ascending
\* order_index order.
C17_ChildListsAscending ==
    LET nodes == UNION {get_section_tree_by_document(d) : d \in documents}
                    \cup UNION {get_section_tree(s) : s \in DOMAIN sections}
    IN \A x \in nodes : \A q \in child_sections(x) :
          \A i, j \in DOMAIN q :
             i < j => sections[q[i]].order_index <= sections[q[j]].order_index

\* C18: when create_document fails on one of its initial sections, the call
\* leaves no document and no section that was not there before, and nothing
\* of its own in the session for a later commit to persist.
C18_FailedCreateLeavesNothing ==
    [][(/\ result'.op = "create_document"
        /\ result'.status \in {"ValidationError", "DatabaseError"}) =>
       /\ documents' \subseteq documents
       /\ DOMAIN sections' \subseteq DOMAIN sections
       /\ pending' \subseteq pending]_vars

\* Two stored links have the same owner: the same section, or the same
\* document and no section.
SameOwner(a, b) ==
    /\ links[a].section_id = links[b].section_id
    /\ links[a].section_id = NULL => links[a].document_id = links[b].document_id

\* C19: no two stored links of the same owner have the same
\* (link_type, link_target).
C19_LinkUniquePerOwner ==
    \A a, b \in DOMAIN links :
        (a # b /\ SameOwner(a, b))
            => <<links[a].link_type, links[a].link_target>>
                  # <<links[b].link_type, links[b].link_target>>

\* A second link with the (link_type, link_target) of a stored link of the
\* same owner was refused, while two links with that pair are stored under
\* different owners.
C19_Witness ==
    /\ result.status = "DuplicateError"
    /\ result.field # "id"
    /\ \E a, b \in DOMAIN links :
          /\ a # b
          /\ links[a].link_type = links[b].link_type
          /\ links[a].link_target = links[b].link_target

\* C20: every stored link either has a section and the document_id of that
\* section, or has no section and the id of a document (never neither owner);
\* link_section creates links of the first kind, link_document links of the
\* second kind with the document_id it is given.
C20_LinkOwnership ==
    /\ [](\A l \in DOMAIN links :
             IF links[l].section_id # NULL
             THEN /\ Exists(links[l].section_id)
                  /\ links[l].document_id = sections[links[l].section_id].document_id
             ELSE links[l].document_id \in documents)
    /\ [][/\ result' = Ok("link_section") =>
                \A l \in (DOMAIN links') \ DOMAIN links :
                   /\ links'[l].section_id # NULL
                   /\ links'[l].document_id = sections[links'[l].section_id].document_id
          /\ result' = Ok("link_document") =>
                \A l \in (DOMAIN links') \ DOMAIN links :
                   /\ links'[l].section_id = NULL
                   /\ \A d \in DocIds, k \in LinkKeys :
                         link_document(d, k[1], k[2], l) => links'[l].document_id = d]_vars

\* A section link and a document link are stored, in different documents.
C20_Witness ==
    \E a, b \in DOMAIN links :
        /\ links[a].section_id # NULL
        /\ links[b].section_id = NULL
        /\ links[a].document_id # links[b].document_id

\* C21: create_section with a document_id that names no document raises
\* NotFoundError and creates no section.
C21_MissingDocumentNotFound ==
    [][result'.op = "create_section" =>
       LET refused == /\ result'.status = "NotFoundError"
                      /\ sections' = sections
       IN \/ refused
          \/ \A d \in DocIds \ documents, p \in SecIds \cup {NULL}, s \in SecIds :
                ~create_section(d, p, NoIndex, s)]_vars

\* C22: get_sections_by_link(type, target) returns one entry for each stored
\* link of a section with that (link_type, link_target), in whatever document
\* the section is, naming that link and its section; links of documents and
\* links of another type or target give no entry.
C22_SectionsByLink ==
    \A link_type \in LinkTypes, link_target \in LinkTargets :
        LET entries == get_sections_by_link(link_type, link_target)
            expected == {l \in DOMAIN links : /\ links[l].section_id # NULL
                                              /\ links[l].link_type = link_type
                                              /\ links[l].link_target = link_target}
        IN /\ Len(entries) = Cardinality(expected)
           /\ {entries[i].link_id : i \in DOMAIN entries} = expected
           /\ \A i \in DOMAIN entries :
                 /\ entries[i].section_id = links[entries[i].link_id].section_id
                 /\ entries[i].document_id = sections[entries[i].section_id].document_id

\* Two sections of different documents and one document are linked to the
\* same target.
C22_Witness ==
    \E a, b, c \in DOMAIN links :
        /\ a # b
        /\ links[a].section_id # NULL
        /\ links[b].section_id # NULL
        /\ links[c].section_id = NULL
        /\ links[a].document_id # links[b].document_id
        /\ links[a].link_target = links[b].link_target
        /\ links[a].link_target = links[c].link_target

\* C23: get_document(D) with its sections, and the commit that closes the
\* session, leave every stored section and link as they were, also when D has
\* nested sections.
C23_GetDocumentReadOnly ==
    [][result'.op = "get_document" => /\ sections' = sections
                                      /\ links' = links]_vars

\* C24: in every state the service operations reach, states left by
\* interleaved update_parent calls included, get_section_path of every stored
\* section ends, and so does the loading of the tree beneath every stored
\* section (the top-level sections of every document among them).
C24_ReadsTerminate ==
    \A s \in DOMAIN sections :
        /\ get_path_to_root_ends(s)
        /\ load_children_recursive_returns(s)

\* C25: on every stored parent-pointer graph, one with a cycle included,
\* would_create_cycle(S, P) returns, and the enumeration of the descendants of
\* S calls get_all_descendant_ids at most once for each section and finds the
\* sections the cycle check works with.
C25_CycleCheckTerminates ==
    \A s \in SecIds :
        LET walk == descendant_calls(s, [visited |-> visited_at_start(s), called |-> <<>>])
        IN /\ \A i, j \in DOMAIN walk.called : i # j => walk.called[i] # walk.called[j]
           /\ walk.visited \ {s} = get_all_descendant_ids(s, {s}) \ {s}
           /\ \A p \in SecIds \cup {NULL} : would_create_cycle(s, p) \in BOOLEAN

\* The cycle check has just refused a move on a graph that holds a cycle, to
\* which a further section is attached.
C25_Witness ==
    /\ result = Raise("update_parent", "ValidationError", "new_parent_section_id")
    /\ \E s \in DOMAIN sections : s \in Ancestors(s)
    /\ \E s \in DOMAIN sections : s \notin Ancestors(s) /\ Ancestors(s) # {}

\* The sections update_parent(S, P) finds in the new place of S: the children
\* of P, or the top-level sections of the document of S when P is None, S
\* itself left out.
NewScope(section_id, new_parent_section_id) ==
    {x \in DOMAIN sections :
        /\ x # section_id
        /\ sections[x].parent_section_id = new_parent_section_id
        /\ new_parent_section_id = NULL
              => sections[x].document_id = sections[section_id].document_id}

\* C26: a successful update_parent(S, P) with no order_index leaves S with
\* order_index 1 + the largest order_index of the sections of the new scope
\* other than S, or 0 when there is none, also when S was in that scope.
C26_MoveAutoIncrement ==
    [][result' = Ok("update_parent") =>
       \A s \in DOMAIN sections :
          \A p \in {sections'[s].parent_section_id} :
             update_parent(s, p, NoIndex) =>
                sections'[s].order_index =
                    IF NewScope(s, p) = {} THEN 0
                    ELSE Max({sections[x].order_index : x \in NewScope(s, p)}) + 1]_vars

\* A move succeeded, and the two children of a section sit at order_index 1
\* and 2: one of them was moved to the end of the scope it shares with the
\* other.
C26_Witness ==
    /\ result = Ok("update_parent")
    /\ \E a, b \in DOMAIN sections :
          /\ sections[a].parent_section_id # NULL
          /\ sections[a].parent_section_id = sections[b].parent_section_id
          /\ sections[a].order_index = 1
          /\ sections[b].order_index = 2

\* C27: once two link_section calls for the same section, link_type and
\* link_target that ran at the same time with different link ids have both
\* finished, the section holds at most one link with that pair.
C27_LinkUniqueAfterConcurrentCalls ==
    (\A t \in Sessions : pc[t].at = "idle")
        => \A a, b \in DOMAIN links :
              (/\ a # b
               /\ links[a].section_id # NULL
               /\ links[a].section_id = links[b].section_id)
                  => <<links[a].link_type, links[a].link_target>>
                        # <<links[b].link_type, links[b].link_target>>

\* C28: link_document(D, type, target) is refused as a duplicate of
\* (document, link_type, link_target) only when D itself holds a link (one
\* with no section) of that link_type and link_target; a link held by a
\* section of D does not make the call fail.
C28_DocumentDuplicateScope ==
    [][result' = Raise("link_document", "DuplicateError", "document_id+link_type+link_target") =>
       \A d \in DocIds, k \in LinkKeys :
          (\E l \in LinkIds : link_document(d, k[1], k[2], l)) =>
             \E x \in DOMAIN links : /\ links[x].section_id = NULL
                                     /\ links[x].document_id = d
                                     /\ links[x].link_type = k[1]
                                     /\ links[x].link_target = k[2]]_vars

\* C29: delete_document(D) leaves every section and every link of another
\* document stored and as it was, also when documents were created with
\* initial sections.
C29_DeleteDocumentFrame ==
    [][result' = Returned("delete_document", TRUE) =>
       \A d \in documents \ documents' :
          /\ \A s \in DOMAIN sections :
                sections[s].document_id # d
                   => s \in DOMAIN sections' /\ sections'[s] = sections[s]
          /\ \A l \in DOMAIN links :
                links[l].document_id # d
                   => l \in DOMAIN links' /\ links'[l] = links[l]]_vars

\* C30: in every committed state, whatever the interleaving of the creating,
\* moving and deleting calls, every section's document_id names a stored
\* document, every parent_section_id that is not null names a stored section,
\* and every link's section_id (when it has one) and document_id name a
\* stored section and a stored document.
C30_ReferentialIntegrity ==
    /\ \A s \in DOMAIN sections :
          /\ sections[s].document_id \in documents
          /\ sections[s].parent_section_id # NULL => Exists(sections[s].parent_section_id)
    /\ \A l \in DOMAIN links :
          /\ links[l].section_id # NULL => Exists(links[l].section_id)
          /\ links[l].document_id \in documents

\* A write was refused by the backend (the row it was to reference had been
\* deleted since the call's reads) while sections are stored in a chain.
C30_Witness ==
    /\ result.status = "DatabaseError"
    /\ result.op = "update_parent"
    /\ \E s \in DOMAIN sections : sections[s].parent_section_id # NULL

====
